---- MODULE Spec2Model ----
(***************************************************************************)
(* Model of ConfigHandler.Config: one configuration file (JSON or TOML)    *)
(* on disk, with construction, add_content (WriteAll), get_content         *)
(* (ReadAll), update_content (Merge) and destroy_config (Destroy).         *)
(*                                                                         *)
(* Python values are tagged pairs <<tag, payload>>:                        *)
(*   <<"int", n>>, <<"pystr", s>>, <<"none", 0>>, <<"set", 0>> (a value    *)
(*   no writer supports), <<"list", 0>> (a non-mapping) and <<"dict", f>>  *)
(*   with f a function from keys to values.  Keys are <<"str", s>> or      *)
(*   <<"int", n>>.  File text is a sequence of tokens <<kind, lexeme>>.    *)
(*   Python's dict insertion order is abstracted to the fixed KeyOrder;    *)
(*   dict equality in Python does not depend on it.                        *)
(***************************************************************************)
EXTENDS Integers, Sequences, FiniteSets, TLC

VARIABLES
    constructed,   \* a Config instance exists (its constructor returned)
    file_type,     \* self.file_type of the instance
    dir_exists,    \* the directory default_directory exists
    file,          \* the file at self.file_path: [exists, text]
    op,            \* the last operation called
    arg,           \* its argument
    res,           \* what it returned or raised
    preExists,     \* the file existed when the last operation was called
    lastWrite      \* the last operation that returned and changed the file

vars == <<constructed, file_type, dir_exists, file, op, arg, res,
          preExists, lastWrite>>

\* ------------------------------------------------------------------ bounds
MaxInt == 1        \* integer leaves are 1..MaxInt

\* ------------------------------------------------------- strings as chars
Json == <<"j", "s", "o", "n">>
Toml == <<"t", "o", "m", "l">>
DotJson == <<".">> \o Json
DotToml == <<".">> \o Toml

ACCEPTED_CONFIG_TYPES == <<Json, Toml>>

\* the format strings a caller passes in
FormatInputs ==
    { Json, DotJson, Toml, DotToml,
      <<"J", "S", "O", "N">>,
      <<"m", "y", "j", "s", "o", "n">>,
      <<"x", "m", "l">> }

UpperChars == <<"J", "S", "O", "N", "T", "M", "L">>
LowerChars == <<"j", "s", "o", "n", "t", "m", "l">>

LowerChar(c) ==
    IF \E i \in 1..Len(UpperChars) : UpperChars[i] = c
    THEN LowerChars[CHOOSE i \in 1..Len(UpperChars) : UpperChars[i] = c]
    ELSE c

lower(s) == [i \in 1..Len(s) |-> LowerChar(s[i])]

\* Python's  sub in s  on strings
Contains(sub, s) ==
    \E i \in 0..(Len(s) - Len(sub)) : SubSeq(s, i + 1, i + Len(sub)) = sub

AcceptedFormat(file_type_in) ==
    \E i \in 1..Len(ACCEPTED_CONFIG_TYPES) :
        Contains(lower(ACCEPTED_CONFIG_TYPES[i]), lower(file_type_in))

_check_file_type(ft) ==
    IF ~ Contains(<<".">>, ft) THEN <<".">> \o ft ELSE ft

\* ------------------------------------------------------------ Python values
PyInt(n) == <<"int", n>>
PyStr(s) == <<"pystr", s>>
PyNone == <<"none", 0>>
PySet == <<"set", 0>>
PyList == <<"list", 0>>
PyDict(f) == <<"dict", f>>
EmptyDict == PyDict(<<>>)

IsDict(v) == v[1] = "dict"

StrKey(s) == <<"str", s>>
IntKey(n) == <<"int", n>>

\* decimal text of the small integers of the model
Digits == <<"1", "2", "3", "4", "5", "6", "7", "8", "9">>
IntRepr(n) == Digits[n]
IsIntRepr(s) == \E n \in 1..Len(Digits) : Digits[n] = s
IntOfRepr(s) == CHOOSE n \in 1..Len(Digits) : Digits[n] = s

\* the order in which the items of a dict are visited
KeyOrder == <<StrKey("a"), StrKey("b"), IntKey(1), StrKey("1")>>
OrderedKeys(f) ==
    LET Test(k) == k \in DOMAIN f IN SelectSeq(KeyOrder, Test)

\* a dict.update that keeps the value of a key already present
DictUpdateKeep(d, n) ==
    [k \in (DOMAIN d) \cup (DOMAIN n) |-> IF k \in DOMAIN d THEN d[k] ELSE n[k]]

\* dict.update(new_values)
DictUpdate(d, n) ==
    [k \in (DOMAIN d) \cup (DOMAIN n) |-> IF k \in DOMAIN n THEN n[k] ELSE d[k]]

\* ---------------------------------------------------------------- results
Return(v) == <<"ret", v>>
Raise(e) == <<"raise", <<"exc", e>>>>
Raised(r) == r[1] = "raise"

\* ------------------------------------------------------------------- files
Absent == [exists |-> FALSE, text |-> <<>>]
FileOf(t) == [exists |-> TRUE, text |-> t]

\* ------------------------------------------------------------------ tokens
P(s) == <<"punct", s>>
WS(s) == <<"ws", s>>
NL == <<"nl", "\n">>
Num(n) == <<"number", IntRepr(n)>>
StrTok(s) == <<"string", s>>
Bare(s) == <<"bare", s>>
Lit(s) == <<"lit", s>>

\* ------------------------------------------------------------- json.dump
\* json turns every key into a string
JsonKey(k) == IF k[1] = "str" THEN StrTok(k[2]) ELSE StrTok(IntRepr(k[2]))

\* newline and indentation written before an item at the given level
NewlineIndent(indent, level) ==
    IF indent THEN <<WS("\n")>> \o [i \in 1..level |-> WS("  ")] ELSE <<>>

ItemSeparator(indent, level) ==
    IF indent THEN <<P(",")>> \o NewlineIndent(indent, level)
    ELSE <<P(","), WS(" ")>>

RECURSIVE JsonChunks(_, _, _)
RECURSIVE JsonItems(_, _, _, _, _)

\* the chunks json's iterencode yields for a value; ok is FALSE when the
\* encoder raised TypeError, and chunks is then what was yielded before
JsonChunks(v, indent, level) ==
    CASE v[1] = "int" -> [chunks |-> <<Num(v[2])>>, ok |-> TRUE]
      [] v[1] = "pystr" -> [chunks |-> <<StrTok(v[2])>>, ok |-> TRUE]
      [] v[1] = "none" -> [chunks |-> <<Lit("null")>>, ok |-> TRUE]
      [] v[1] = "dict" ->
            IF DOMAIN v[2] = {}
            THEN [chunks |-> <<P("{"), P("}")>>, ok |-> TRUE]
            ELSE LET body == JsonItems(v[2], OrderedKeys(v[2]), indent,
                                       level + 1, TRUE)
                 IN IF body.ok
                    THEN [chunks |-> <<P("{")>> \o NewlineIndent(indent, level + 1)
                                     \o body.chunks
                                     \o NewlineIndent(indent, level) \o <<P("}")>>,
                          ok |-> TRUE]
                    ELSE [chunks |-> <<P("{")>> \o NewlineIndent(indent, level + 1)
                                     \o body.chunks,
                          ok |-> FALSE]
      [] OTHER -> [chunks |-> <<>>, ok |-> FALSE]

JsonItems(f, keys, indent, level, first) ==
    IF keys = <<>> THEN [chunks |-> <<>>, ok |-> TRUE]
    ELSE LET k == Head(keys)
             sep == IF first THEN <<>> ELSE ItemSeparator(indent, level)
             val == JsonChunks(f[k], indent, level)
             pre == sep \o <<JsonKey(k), P(":"), WS(" ")>> \o val.chunks
         IN IF ~ val.ok THEN [chunks |-> pre, ok |-> FALSE]
            ELSE LET rest == JsonItems(f, Tail(keys), indent, level, FALSE)
                 IN [chunks |-> pre \o rest.chunks, ok |-> rest.ok]

JsonDump(v, indent) == JsonChunks(v, indent, 0)

\* ------------------------------------------------------------- json.load
IsWs(t) == t[1] = "ws"
NotWs(t) == ~ IsWs(t)
Bad == [ok |-> FALSE, val |-> PyNone, next |-> 0]

RECURSIVE JsonValue(_, _)
RECURSIVE JsonMembers(_, _, _)

\* parse one value starting at token i; next is the index after it
JsonValue(toks, i) ==
    IF i > Len(toks) THEN Bad
    ELSE LET t == toks[i] IN
         CASE t[1] = "number" /\ IsIntRepr(t[2]) ->
                  [ok |-> TRUE, val |-> PyInt(IntOfRepr(t[2])), next |-> i + 1]
           [] t[1] = "string" ->
                  [ok |-> TRUE, val |-> PyStr(t[2]), next |-> i + 1]
           [] t = Lit("null") -> [ok |-> TRUE, val |-> PyNone, next |-> i + 1]
           [] t = P("{") ->
                  IF i + 1 <= Len(toks) /\ toks[i + 1] = P("}")
                  THEN [ok |-> TRUE, val |-> EmptyDict, next |-> i + 2]
                  ELSE JsonMembers(toks, i + 1, <<>>)
           [] OTHER -> Bad

\* parse  "key": value (, "key": value)* }  starting at token i
JsonMembers(toks, i, acc) ==
    IF i + 1 > Len(toks) \/ toks[i][1] # "string" \/ toks[i + 1] # P(":")
    THEN Bad
    ELSE LET v == JsonValue(toks, i + 2) IN
         IF ~ v.ok THEN Bad
         ELSE LET k == StrKey(toks[i][2])
                  acc2 == [x \in (DOMAIN acc) \cup {k} |->
                              IF x = k THEN v.val ELSE acc[x]]
              IN IF v.next > Len(toks) THEN Bad
                 ELSE IF toks[v.next] = P("}")
                      THEN [ok |-> TRUE, val |-> PyDict(acc2), next |-> v.next + 1]
                 ELSE IF toks[v.next] = P(",")
                      THEN JsonMembers(toks, v.next + 1, acc2)
                 ELSE Bad

JsonLoad(text) ==
    LET toks == SelectSeq(text, NotWs)
        r == JsonValue(toks, 1)
    IN IF r.ok /\ r.next = Len(toks) + 1
       THEN [ok |-> TRUE, val |-> r.val]
       ELSE [ok |-> FALSE, val |-> PyNone]

\* ----------------------------------------------------------- tomli_w.dumps
IsStrKey(k) == k[1] = "str"
TomlLiteralOk(v) == v[1] \in {"int", "pystr"}
TomlLiteral(v) == IF v[1] = "int" THEN Num(v[2]) ELSE StrTok(v[2])

RECURSIVE TomlSerializable(_)
\* tomli_w raises TypeError for a key that is not a str and for a value of
\* a type TOML does not have
TomlSerializable(f) ==
    \A k \in DOMAIN f :
        /\ IsStrKey(k)
        /\ IF IsDict(f[k]) THEN TomlSerializable(f[k][2]) ELSE TomlLiteralOk(f[k])

\* the dotted name of a table header
RECURSIVE DisplayName(_)
DisplayName(name) ==
    IF Len(name) = 1 THEN <<Bare(name[1])>>
    ELSE <<Bare(name[1]), P(".")>> \o DisplayName(Tail(name))

RECURSIVE TomlLiterals(_, _)
TomlLiterals(f, keys) ==
    IF keys = <<>> THEN <<>>
    ELSE LET k == Head(keys) IN
         (IF IsDict(f[k]) THEN <<>>
          ELSE <<Bare(k[2]), WS(" "), P("="), WS(" "), TomlLiteral(f[k]), NL>>)
         \o TomlLiterals(f, Tail(keys))

RECURSIVE gen_table_chunks(_, _)
RECURSIVE TomlTables(_, _, _, _)

\* the chunks of the sub-tables of f, in order; yielded says whether
\* anything was written before, so that a blank line separates them
TomlTables(f, keys, name, yielded) ==
    IF keys = <<>> THEN <<>>
    ELSE LET k == Head(keys) IN
         IF ~ IsDict(f[k]) THEN TomlTables(f, Tail(keys), name, yielded)
         ELSE (IF yielded THEN <<NL>> ELSE <<>>)
              \o gen_table_chunks(f[k][2], name \o <<k[2]>>)
              \o TomlTables(f, Tail(keys), name, TRUE)

gen_table_chunks(f, name) ==
    LET keys == OrderedKeys(f)
        literals == TomlLiterals(f, keys)
        hasTables == \E k \in DOMAIN f : IsDict(f[k])
        header == IF name # <<>> /\ (literals # <<>> \/ ~ hasTables)
                  THEN <<P("[")>> \o DisplayName(name) \o <<P("]"), NL>>
                  ELSE <<>>
    IN header \o literals
       \o TomlTables(f, keys, name, header # <<>> \/ literals # <<>>)

TomlDumps(v) ==
    IF IsDict(v) /\ TomlSerializable(v[2])
    THEN [text |-> gen_table_chunks(v[2], <<>>), ok |-> TRUE]
    ELSE [text |-> <<>>, ok |-> FALSE]

\* ----------------------------------------------------------- tomllib.loads
RECURSIVE LineEnd(_, _)
\* index of the newline that ends the line starting at i (Len + 1 if none)
LineEnd(toks, i) ==
    IF i > Len(toks) \/ toks[i] = NL THEN i ELSE LineEnd(toks, i + 1)

RECURSIVE HeaderPath(_)
\* the keys of  a.b.c ; <<>> when the tokens are not a dotted name
HeaderPath(toks) ==
    IF toks = <<>> \/ toks[1][1] # "bare" THEN <<>>
    ELSE IF Len(toks) = 1 THEN <<toks[1][2]>>
    ELSE IF toks[2] # P(".") THEN <<>>
    ELSE LET rest == HeaderPath(SubSeq(toks, 3, Len(toks)))
         IN IF rest = <<>> THEN <<>> ELSE <<toks[1][2]>> \o rest

RECURSIVE TableAt(_, _)
\* the table at a path of doc: [ok, tbl]; ok is FALSE when a key on the
\* path holds a value that is not a table
TableAt(d, path) ==
    IF path = <<>> THEN [ok |-> TRUE, tbl |-> d]
    ELSE LET k == StrKey(Head(path)) IN
         IF k \notin DOMAIN d THEN TableAt(<<>>, Tail(path))
         ELSE IF IsDict(d[k]) THEN TableAt(d[k][2], Tail(path))
         ELSE [ok |-> FALSE, tbl |-> <<>>]

RECURSIVE PutTable(_, _, _)
\* doc with the table at path replaced by tbl
PutTable(d, path, tbl) ==
    IF path = <<>> THEN tbl
    ELSE LET k == StrKey(Head(path))
             sub == IF k \in DOMAIN d /\ IsDict(d[k]) THEN d[k][2] ELSE <<>>
         IN [x \in (DOMAIN d) \cup {k} |->
                IF x = k THEN PyDict(PutTable(sub, Tail(path), tbl)) ELSE d[x]]

TomlBad == [ok |-> FALSE, val |-> PyNone]

RECURSIVE TomlLines(_, _, _, _, _)
\* parse the lines from token i on; cur is the path of the current table,
\* declared the set of paths a header has declared
TomlLines(toks, i, doc, cur, declared) ==
    IF i > Len(toks) THEN [ok |-> TRUE, val |-> PyDict(doc)]
    ELSE LET e == LineEnd(toks, i)
             line == SubSeq(toks, i, e - 1)
         IN IF line = <<>> THEN TomlLines(toks, e + 1, doc, cur, declared)
            ELSE IF line[1] = P("[")
            THEN LET path == HeaderPath(SubSeq(line, 2, Len(line) - 1)) IN
                 IF line[Len(line)] # P("]") \/ path = <<>>
                    \/ path \in declared \/ ~ TableAt(doc, path).ok
                 THEN TomlBad
                 ELSE TomlLines(toks, e + 1,
                                PutTable(doc, path, TableAt(doc, path).tbl),
                                path, declared \cup {path})
            ELSE IF Len(line) = 3 /\ line[1][1] = "bare" /\ line[2] = P("=")
                    /\ \/ line[3][1] = "string"
                       \/ line[3][1] = "number" /\ IsIntRepr(line[3][2])
            THEN LET t == TableAt(doc, cur).tbl
                     k == StrKey(line[1][2])
                     v == IF line[3][1] = "string" THEN PyStr(line[3][2])
                          ELSE PyInt(IntOfRepr(line[3][2]))
                 IN IF k \in DOMAIN t THEN TomlBad
                    ELSE TomlLines(toks, e + 1,
                             PutTable(doc, cur,
                                 [x \in (DOMAIN t) \cup {k} |->
                                     IF x = k THEN v ELSE t[x]]),
                             cur, declared)
            ELSE TomlBad

TomlLoads(text) == TomlLines(SelectSeq(text, NotWs), 1, <<>>, <<>>, {})

\* --------------------------------------------------------------- the class
\* an add_content that opens the file for appending
add_content_append(ft, f, contents) ==
    IF ft = DotJson
    THEN LET d == JsonDump(contents, FALSE) IN
         [file |-> FileOf(f.text \o d.chunks),
          res |-> IF d.ok THEN Return(PyNone) ELSE Raise("TypeError")]
    ELSE IF ft = DotToml
    THEN LET d == TomlDumps(contents) IN
         IF ~ d.ok THEN [file |-> FileOf(f.text), res |-> Raise("TypeError")]
         ELSE IF ~ TomlLoads(d.text).ok
         THEN [file |-> FileOf(f.text), res |-> Raise("ValueError")]
         ELSE [file |-> FileOf(f.text \o d.text), res |-> Return(PyNone)]
    ELSE [file |-> f, res |-> Return(PyNone)]

\* add_content: the file is opened for writing (created or truncated)
\* before anything is serialized
add_content(ft, f, contents) ==
    IF ft = DotJson
    THEN LET d == JsonDump(contents, FALSE) IN
         [file |-> FileOf(d.chunks),
          res |-> IF d.ok THEN Return(PyNone) ELSE Raise("TypeError")]
    ELSE IF ft = DotToml
    THEN LET d == TomlDumps(contents) IN
         IF ~ d.ok THEN [file |-> FileOf(<<>>), res |-> Raise("TypeError")]
         ELSE IF ~ TomlLoads(d.text).ok
         THEN [file |-> FileOf(<<>>), res |-> Raise("ValueError")]
         ELSE [file |-> FileOf(d.text), res |-> Return(PyNone)]
    ELSE [file |-> f, res |-> Return(PyNone)]

\* a get_content that creates the file it did not find
get_content_recreate(ft, f) ==
    IF ~ f.exists THEN [file |-> FileOf(<<>>), res |-> Return(EmptyDict)]
    ELSE IF ft = DotJson
    THEN LET r == JsonLoad(f.text) IN
         [file |-> f,
          res |-> IF r.ok THEN Return(r.val) ELSE Raise("JSONDecodeError")]
    ELSE IF ft = DotToml
    THEN LET r == TomlLoads(f.text) IN
         [file |-> f,
          res |-> IF r.ok THEN Return(r.val) ELSE Raise("TOMLDecodeError")]
    ELSE [file |-> f, res |-> Return(PyNone)]

get_content(ft, f) ==
    IF ~ f.exists THEN [file |-> f, res |-> Return(EmptyDict)]
    ELSE IF ft = DotJson
    THEN LET r == JsonLoad(f.text) IN
         [file |-> f,
          res |-> IF r.ok THEN Return(r.val) ELSE Raise("JSONDecodeError")]
    ELSE IF ft = DotToml
    THEN LET r == TomlLoads(f.text) IN
         [file |-> f,
          res |-> IF r.ok THEN Return(r.val) ELSE Raise("TOMLDecodeError")]
    ELSE [file |-> f, res |-> Return(PyNone)]

\* an update_content that opens the file before it looks at its argument
update_content_late_check(ft, f, new_values) ==
    IF ~ IsDict(new_values)
    THEN [file |-> FileOf(<<>>), res |-> Raise("ValueError")]
    ELSE LET g == get_content(ft, f) IN
         IF Raised(g.res) THEN [file |-> f, res |-> g.res]
         ELSE IF ft = DotJson
         THEN LET d == JsonDump(PyDict(DictUpdate(g.res[2][2], new_values[2])),
                                TRUE)
              IN [file |-> FileOf(d.chunks),
                  res |-> IF d.ok THEN Return(PyNone) ELSE Raise("TypeError")]
         ELSE IF ft = DotToml
         THEN add_content(ft, FileOf(<<>>),
                          PyDict(DictUpdate(g.res[2][2], new_values[2])))
         ELSE [file |-> FileOf(<<>>), res |-> Return(PyNone)]

update_content(ft, f, new_values) ==
    IF ~ IsDict(new_values) THEN [file |-> f, res |-> Raise("ValueError")]
    ELSE LET g == get_content(ft, f) IN
         IF Raised(g.res) THEN [file |-> f, res |-> g.res]
         ELSE IF ft = DotJson
         THEN LET d == JsonDump(PyDict(DictUpdate(g.res[2][2], new_values[2])),
                                TRUE)
              IN [file |-> FileOf(d.chunks),
                  res |-> IF d.ok THEN Return(PyNone) ELSE Raise("TypeError")]
         ELSE IF ft = DotToml
         THEN add_content(ft, FileOf(<<>>),
                          PyDict(DictUpdate(g.res[2][2], new_values[2])))
         ELSE [file |-> FileOf(<<>>), res |-> Return(PyNone)]

destroy_config(f) ==
    IF f.exists THEN [file |-> Absent, res |-> Return(PyNone)]
    ELSE [file |-> f, res |-> Raise("FileNotFoundError")]

\* an __init__ that writes the empty mapping whether or not the file exists
ConfigAlwaysWrite(format, f) ==
    IF ~ AcceptedFormat(format)
    THEN [ok |-> FALSE, file_type |-> format, file |-> f,
          res |-> Raise("ValueError")]
    ELSE LET ft == _check_file_type(format)
             w == add_content(ft, f, EmptyDict)
         IN [ok |-> ~ Raised(w.res), file_type |-> ft, file |-> w.file,
             res |-> w.res]

\* __init__: [ok, file_type, file, res]
Config(format, f) ==
    IF ~ AcceptedFormat(format)
    THEN [ok |-> FALSE, file_type |-> format, file |-> f,
          res |-> Raise("ValueError")]
    ELSE LET ft == _check_file_type(format)
             w == IF ~ f.exists THEN add_content(ft, f, EmptyDict)
                  ELSE [file |-> f, res |-> Return(PyNone)]
         IN [ok |-> ~ Raised(w.res), file_type |-> ft, file |-> w.file,
             res |-> w.res]

\* ------------------------------------------------------------------ inputs
Leaves == {PyInt(n) : n \in 1..MaxInt} \cup {PyStr("x"), PyNone, PySet}
NestedDicts ==
    { PyDict([k \in {StrKey("a")} |-> PyInt(1)]),
      PyDict([k \in {IntKey(1)} |-> PyInt(1)]) }
Values == Leaves \cup NestedDicts
InputKeys == {StrKey("a"), StrKey("b")}
InputDicts == {PyDict(f) : f \in UNION {[S -> Values] : S \in SUBSET InputKeys}}
NonMappings == {PyList, PyNone, PyInt(1)}

\* ----------------------------------------------------------------- actions
Init ==
    /\ constructed = FALSE
    /\ file_type = <<>>
    /\ dir_exists = FALSE
    /\ file = Absent
    /\ op = "none"
    /\ arg = PyNone
    /\ res = Return(PyNone)
    /\ preExists = FALSE
    /\ lastWrite = "none"

\* the last operation that returned and was a write or a removal of the
\* file (a construction counts when it wrote the file)
Written(name, r) ==
    IF ~ Raised(r.res)
       /\ (name \in {"WriteAll", "Merge", "Destroy"} \/ r.file # file)
    THEN name ELSE lastWrite

\* Config(name, format, directory); a later construction is for the same path
Construct ==
    \E format \in FormatInputs :
        /\ constructed => _check_file_type(format) = file_type
        /\ LET r == Config(format, file) IN
           /\ constructed' = (constructed \/ r.ok)
           /\ file_type' = IF r.ok THEN r.file_type ELSE file_type
           /\ dir_exists' = (dir_exists \/ AcceptedFormat(format))
           /\ file' = r.file
           /\ res' = r.res
           /\ lastWrite' = Written("Construct", r)
        /\ op' = "Construct"
        /\ arg' = PyNone
        /\ preExists' = file.exists

WriteAll ==
    \E contents \in InputDicts :
        /\ constructed
        /\ LET r == add_content(file_type, file, contents) IN
           /\ file' = r.file
           /\ res' = r.res
           /\ lastWrite' = Written("WriteAll", r)
        /\ op' = "WriteAll"
        /\ arg' = contents
        /\ preExists' = file.exists
        /\ UNCHANGED <<constructed, file_type, dir_exists>>

ReadAll ==
    /\ constructed
    /\ LET r == get_content(file_type, file) IN
       /\ file' = r.file
       /\ res' = r.res
       /\ lastWrite' = Written("ReadAll", r)
    /\ op' = "ReadAll"
    /\ arg' = PyNone
    /\ preExists' = file.exists
    /\ UNCHANGED <<constructed, file_type, dir_exists>>

Merge ==
    \E new_values \in InputDicts \cup NonMappings :
        /\ constructed
        /\ LET r == update_content(file_type, file, new_values) IN
           /\ file' = r.file
           /\ res' = r.res
           /\ lastWrite' = Written("Merge", r)
        /\ op' = "Merge"
        /\ arg' = new_values
        /\ preExists' = file.exists
        /\ UNCHANGED <<constructed, file_type, dir_exists>>

Destroy ==
    /\ constructed
    /\ LET r == destroy_config(file) IN
       /\ file' = r.file
       /\ res' = r.res
       /\ lastWrite' = Written("Destroy", r)
    /\ op' = "Destroy"
    /\ arg' = PyNone
    /\ preExists' = file.exists
    /\ UNCHANGED <<constructed, file_type, dir_exists>>

Next == Construct \/ WriteAll \/ ReadAll \/ Merge \/ Destroy

Spec == Init /\ [][Next]_vars

TypeOK ==
    /\ constructed \in BOOLEAN
    /\ dir_exists \in BOOLEAN
    /\ file.exists \in BOOLEAN
    /\ preExists \in BOOLEAN
    /\ op \in {"none", "Construct", "WriteAll", "ReadAll", "Merge", "Destroy"}
    /\ constructed => dir_exists

\* ------------------------------------------------------------------ claims
IsBackend(ft) == ft \in {DotJson, DotToml}

\* what ReadAll would return in the current state
ReadBack == get_content(file_type, file).res

A == StrKey("a")
B == StrKey("b")
Dict1(k, v) == PyDict([x \in {k} |-> v])
Dict2(v, w) == PyDict([x \in {A, B} |-> IF x = A THEN v ELSE w])

\* C1: once Construct returns, the file exists, and if it was absent before
\* the call it holds the empty mapping
C1_FileExistsAfterConstruct ==
    (op = "Construct" /\ ~ Raised(res)) =>
        /\ file.exists
        /\ ~ preExists => ReadBack = Return(EmptyDict)

\* C2: a constructed store holds the format .json or the format .toml
C2_FormatNormalized ==
    constructed => file_type \in {DotJson, DotToml}

RECURSIVE Representable(_, _)
\* a value the format of ft has: string keys throughout; null only in JSON
Representable(ft, v) ==
    CASE v[1] \in {"int", "pystr"} -> TRUE
      [] v[1] = "none" -> ft = DotJson
      [] v[1] = "dict" ->
            \A k \in DOMAIN v[2] : k[1] = "str" /\ Representable(ft, v[2][k])
      [] OTHER -> FALSE

\* C3: on a JSON or TOML store, WriteAll(m) of a representable mapping m
\* returns, and ReadAll then returns exactly m, whatever the file held
C3_RoundTrip ==
    (op = "WriteAll" /\ IsBackend(file_type) /\ Representable(file_type, arg)) =>
        /\ ~ Raised(res)
        /\ ReadBack = Return(arg)

C3_Witness ==
    /\ op = "WriteAll"
    /\ file_type = DotToml
    /\ preExists
    /\ arg = Dict2(PyStr("x"), Dict1(A, PyInt(1)))
    /\ ReadBack = Return(arg)

RECURSIVE StrKeyed(_)
\* a mapping in the glossary's sense: string keys, at every level
StrKeyed(v) ==
    IsDict(v) => \A k \in DOMAIN v[2] : k[1] = "str" /\ StrKeyed(v[2][k])

\* C4: a Merge(v) that returns on a JSON or TOML store whose content is c0
\* leaves the content c0 <- v: the keys of both, v's value for every key of
\* v, c0's value for every other key
C4_MergeIsUnion ==
    [][(/\ op' = "Merge"
        /\ ~ Raised(res')
        /\ IsBackend(file_type)
        /\ StrKeyed(arg')
        /\ ~ Raised(ReadBack))
       => LET c0 == ReadBack[2][2]
              v == arg'[2]
              after == get_content(file_type', file').res
          IN /\ ~ Raised(after)
             /\ IsDict(after[2])
             /\ DOMAIN after[2][2] = (DOMAIN c0) \cup (DOMAIN v)
             /\ \A k \in DOMAIN v : after[2][2][k] = v[k]
             /\ \A k \in (DOMAIN c0) \ (DOMAIN v) : after[2][2][k] = c0[k]]_vars

C4_Witness ==
    /\ op = "Merge"
    /\ ~ Raised(res)
    /\ IsBackend(file_type)
    /\ preExists
    /\ arg = Dict1(A, PyStr("x"))
    /\ ReadBack = Return(Dict2(PyStr("x"), Dict1(A, PyInt(1))))

\* C5: constructing a store for a file that exists leaves the file as it is
C5_ConstructKeepsFile ==
    [][(op' = "Construct" /\ file.exists) => file' = file]_vars

C5_Witness ==
    /\ op = "Construct"
    /\ preExists
    /\ file.exists
    /\ ReadBack = Return(Dict1(A, PyInt(1)))

\* C6: Merge with an argument that is not a mapping raises ValueError and
\* leaves the file, present or absent, as it was
C6_InvalidMergeArgument ==
    [][(op' = "Merge" /\ ~ IsDict(arg'))
       => (res' = Raise("ValueError") /\ file' = file)]_vars

C6_Witness ==
    /\ op = "Merge"
    /\ arg = PyList
    /\ res = Raise("ValueError")
    /\ lastWrite = "Destroy"
    /\ ~ file.exists

RECURSIVE HasTomlUnsupported(_)
\* the value holds a value of a type TOML does not have
HasTomlUnsupported(v) ==
    \/ v[1] \in {"none", "set"}
    \/ IsDict(v) /\ \E k \in DOMAIN v[2] : HasTomlUnsupported(v[2][k])

\* C7: on a TOML store, WriteAll of a mapping holding a value of a type TOML
\* does not have raises the ValueError that carries the text
C7_TomlInvalidSerialization ==
    (op = "WriteAll" /\ file_type = DotToml /\ HasTomlUnsupported(arg))
        => res = Raise("ValueError")

\* C8: a TOML WriteAll or a Merge that fails while serializing leaves the
\* file as it was
C8_FailedWriteKeepsFile ==
    [][(/\ \/ op' = "WriteAll" /\ file_type = DotToml
           \/ op' = "Merge" /\ IsBackend(file_type)
        /\ res' = Raise("TypeError"))
       => file' = file]_vars

\* C9: a Destroy that returns leaves the file absent; ReadAll never changes
\* the file and returns the empty mapping when the file is absent; only
\* Construct, WriteAll and Merge make an absent file exist
C9_DestroyThenRead ==
    [][/\ (op' = "Destroy" /\ ~ Raised(res')) => ~ file'.exists
       /\ op' = "ReadAll" =>
             /\ file' = file
             /\ ~ file.exists => res' = Return(EmptyDict)
       /\ (~ file.exists /\ file'.exists) =>
             op' \in {"Construct", "WriteAll", "Merge"}]_vars

C9_Witness ==
    /\ op = "ReadAll"
    /\ lastWrite = "Destroy"
    /\ ~ preExists
    /\ ~ file.exists
    /\ res = Return(EmptyDict)

\* C10: on a store of format .json or .toml the file is absent exactly when
\* the last operation that returned and wrote or removed the file is Destroy
C10_AbsentIffDestroyed ==
    (constructed /\ IsBackend(file_type)) =>
        (~ file.exists <=> lastWrite = "Destroy")
====
